---------------------------- MODULE Spec2Model ----------------------------
(***************************************************************************)
(* A model of poduqnn/varneuralnetwork.py (class VarNeuralNetwork): the     *)
(* mean/variance network, its normalization, its training loop and its     *)
(* persistence.                                                            *)
(*                                                                         *)
(* float64 values are modelled as extended rationals <<n, d>>:             *)
(*   d > 0, n # 0 : the finite value n/d, in lowest terms;                 *)
(*   <<0,1>>: +0.0,  <<0,-1>>: -0.0;                                       *)
(*   <<1,0>>: +inf,  <<-1,0>>: -inf,  <<0,0>>: NaN;                        *)
(*   <<2,0>>: Fin, a finite value that is not computed;                    *)
(*   <<3,0>>: FinPos, a finite value above 0 that is not computed;         *)
(*   <<4,0>>: AnyFloat, a value that is not computed (maybe inf or NaN).   *)
(* The arithmetic follows IEEE 754 on the values that are computed         *)
(* (inf - inf, 0 * inf, 0/0 and inf/inf are NaN, x/0 is an infinity of     *)
(* the sign of x and of the zero); rounding is not modelled.  What         *)
(* rationals cannot give (an irrational square root, a gradient, an Adam   *)
(* update) is Fin, FinPos or AnyFloat: the result is known by its kind     *)
(* only, and two such values need not be the same number.  Arithmetic on   *)
(* such a value may overflow to an infinity or underflow to a zero, so its *)
(* result is AnyFloat wherever float64 does not fix it.                    *)
(* Python's None is the empty tuple <<>> wherever a tuple may also stand.  *)
(***************************************************************************)
EXTENDS Integers, Sequences, FiniteSets, TLC

VARIABLES inst, frame, log, pfs, wfs, ret, count

vars == <<inst, frame, log, pfs, wfs, ret, count>>

(***************************************************************************)
(* Extended rational arithmetic (float64, dtype of line 22).               *)
(***************************************************************************)
Abs(n) == IF n < 0 THEN -n ELSE n

Sgn(n) == IF n < 0 THEN -1 ELSE IF n > 0 THEN 1 ELSE 0

RECURSIVE GCD(_, _)
GCD(a, b) == IF b = 0 THEN a ELSE GCD(b, a % b)

NaN == <<0, 0>>

PInf == <<1, 0>>

NInf == <<-1, 0>>

Fin == <<2, 0>>

FinPos == <<3, 0>>

AnyFloat == <<4, 0>>

Zero == <<0, 1>>

NegZero == <<0, -1>>

One == <<1, 1>>

Half == <<1, 2>>

IsNaN(a) == a = NaN

IsInf(a) == a = PInf \/ a = NInf

\* A value that is computed: a rational or a zero.
IsExact(a) == a[2] # 0

\* A value known by its kind only.
IsOpen(a) == a = Fin \/ a = FinPos \/ a = AnyFloat

\* A value known to be finite.
IsFinite(a) == IsExact(a) \/ a = Fin \/ a = FinPos

IsZero(a) == a[1] = 0 /\ a[2] # 0

\* The kinds of float64 value a may be: NaN, an infinity or a finite value
\* where a may be anything, and else a itself.
KindsOf(a) == IF a = AnyFloat THEN {NaN, NInf, PInf, Fin} ELSE {a}

\* The sign bit of a computed value or an infinity as -1 or 1 (0 for NaN).
SignOf(a) == IF a[1] # 0 THEN Sgn(a[1]) ELSE Sgn(a[2])

\* The zero of sign s.
SignedZero(s) == IF s < 0 THEN NegZero ELSE Zero

\* n/d for d >= 0 and n # 0 in lowest terms, an infinity if d = 0.
Reduced(n, d) == <<n \div GCD(Abs(n), d), d \div GCD(Abs(n), d)>>

\* The value n/d with d >= 0, the zero being of sign s: NaN for 0/0.
Q(n, d, s) ==
    IF n = 0 THEN (IF d = 0 THEN NaN ELSE SignedZero(s))
    ELSE Reduced(n, d)

Neg(a) ==
    IF a = AnyFloat THEN AnyFloat
    ELSE IF a = Fin \/ a = FinPos THEN Fin
    ELSE IF IsZero(a) THEN <<0, -a[2]>>
    ELSE <<-a[1], a[2]>>

\* x + y; a zero sum is -0.0 only if both terms are -0.0.  An infinity plus
\* a finite value is the infinity; any other sum with a value that is not
\* computed is open (it may overflow).
Add(a, b) ==
    IF IsNaN(a) \/ IsNaN(b) THEN NaN
    ELSE IF a = AnyFloat \/ b = AnyFloat THEN AnyFloat
    ELSE IF IsInf(a) /\ IsInf(b) THEN (IF a = b THEN a ELSE NaN)
    ELSE IF IsInf(a) THEN a
    ELSE IF IsInf(b) THEN b
    ELSE IF IsOpen(a) \/ IsOpen(b) THEN AnyFloat
    ELSE Q(a[1] * Abs(b[2]) + b[1] * Abs(a[2]), Abs(a[2]) * Abs(b[2]),
           IF a = NegZero /\ b = NegZero THEN -1 ELSE 1)

Sub(a, b) == Add(a, Neg(b))

\* The product of a finite value o that is not computed with e, which is
\* computed or an infinity.  Fin may be 0, which leaves Fin * inf open; a
\* product with a zero is a zero (of the sign of e for FinPos); any other
\* product may overflow or underflow.
OpenTimes(o, e) ==
    IF IsInf(e) THEN (IF o = FinPos THEN e ELSE AnyFloat)
    ELSE IF IsZero(e) THEN (IF o = FinPos THEN e ELSE Fin)
    ELSE AnyFloat

Mul(a, b) ==
    IF IsNaN(a) \/ IsNaN(b) THEN NaN
    ELSE IF IsOpen(a) /\ IsOpen(b) THEN AnyFloat
    ELSE IF a = AnyFloat \/ b = AnyFloat THEN AnyFloat
    ELSE IF IsOpen(a) THEN OpenTimes(a, b)
    ELSE IF IsOpen(b) THEN OpenTimes(b, a)
    ELSE Q(a[1] * b[1], Abs(a[2]) * Abs(b[2]), SignOf(a) * SignOf(b))

\* a / FinPos, for a that is not NaN or AnyFloat: an infinity or a zero
\* stays what it is, any other quotient may overflow or underflow.
OverPositive(a) ==
    IF IsInf(a) \/ IsZero(a) THEN a
    ELSE AnyFloat

\* o / e for a finite value o that is not computed and e, which is
\* computed or an infinity: a zero over an infinity, an infinity or NaN
\* over a zero, and else a quotient that may overflow or underflow.
OpenOver(o, e) ==
    IF IsInf(e) THEN (IF o = FinPos THEN SignedZero(e[1]) ELSE Fin)
    ELSE IF IsZero(e)
    THEN (IF o = FinPos THEN (IF SignOf(e) > 0 THEN PInf ELSE NInf) ELSE AnyFloat)
    ELSE AnyFloat

\* x / y; Fin as the divisor may be 0, which leaves the quotient open.
Div(a, b) ==
    IF IsNaN(a) \/ IsNaN(b) THEN NaN
    ELSE IF a = AnyFloat \/ b = AnyFloat \/ b = Fin THEN AnyFloat
    ELSE IF b = FinPos THEN OverPositive(a)
    ELSE IF IsOpen(a) THEN OpenOver(a, b)
    ELSE Q(SignOf(b) * a[1] * Abs(b[2]), Abs(a[2]) * Abs(b[1]),
           SignOf(a) * SignOf(b))

\* a < b on computed values and infinities; any comparison with NaN is
\* false, and -0.0 = +0.0.
Less(a, b) ==
    IF IsNaN(a) \/ IsNaN(b) THEN FALSE
    ELSE IF ~IsExact(a) /\ ~IsExact(b) THEN a[1] < b[1]
    ELSE a[1] * Abs(b[2]) < b[1] * Abs(a[2])

\* The integer part of the square root of n, sought between lo and hi.
RECURSIVE FloorSqrtIn(_, _, _)
FloorSqrtIn(n, lo, hi) ==
    IF lo >= hi THEN lo
    ELSE IF ((lo + hi + 1) \div 2) * ((lo + hi + 1) \div 2) <= n
    THEN FloorSqrtIn(n, (lo + hi + 1) \div 2, hi)
    ELSE FloorSqrtIn(n, lo, (lo + hi + 1) \div 2 - 1)

\* The largest k with k * k <= n, for n >= 0 (k * k stays below 2^31).
ISqrt(n) == FloorSqrtIn(n, 0, IF n < 46340 THEN n ELSE 46340)

IsSquare(n) == ISqrt(n) * ISqrt(n) = n

\* sqrt: NaN below zero, the zero itself at +-0.0, +inf at +inf; computed
\* where numerator and denominator are squares, and else a finite value
\* above 0 that is not computed.
Sqrt(a) ==
    IF IsNaN(a) \/ a = PInf \/ a = FinPos \/ a = AnyFloat THEN a
    ELSE IF a = Fin THEN AnyFloat
    ELSE IF IsZero(a) THEN a
    ELSE IF a[1] < 0 THEN NaN
    ELSE IF IsSquare(a[1]) /\ IsSquare(a[2]) THEN <<ISqrt(a[1]), ISqrt(a[2])>>
    ELSE FinPos

Square(a) == Mul(a, a)

\* The sum of a sequence of values: its only value if it has one.
RECURSIVE SumSeq(_)
SumSeq(s) ==
    IF s = <<>> THEN Zero
    ELSE IF Len(s) = 1 THEN s[1]
    ELSE Add(Head(s), SumSeq(Tail(s)))

HasNaN(s) == \E i \in 1..Len(s) : IsNaN(s[i])

HasOpen(s) == \E i \in 1..Len(s) : IsOpen(s[i])

\* The least or greatest of values some of which are not computed: finite
\* if all are known to be.
OpenExtreme(s) == IF \A i \in 1..Len(s) : IsFinite(s[i]) THEN Fin ELSE AnyFloat

\* The least value of a sequence of computed values and infinities.
RECURSIVE LeastOf(_)
LeastOf(s) ==
    IF Len(s) = 1 THEN s[1]
    ELSE IF \A i \in 2..Len(s) : ~Less(s[i], s[1]) THEN s[1]
    ELSE LeastOf(Tail(s))

\* The greatest value of a sequence of computed values and infinities.
RECURSIVE GreatestOf(_)
GreatestOf(s) ==
    IF Len(s) = 1 THEN s[1]
    ELSE IF \A i \in 2..Len(s) : ~Less(s[1], s[i]) THEN s[1]
    ELSE GreatestOf(Tail(s))

\* np.amin and np.amax along a column: NaN if the column holds a NaN.
MinSeq(s) ==
    IF HasNaN(s) THEN NaN
    ELSE IF HasOpen(s) THEN OpenExtreme(s)
    ELSE LeastOf(s)

MaxSeq(s) ==
    IF HasNaN(s) THEN NaN
    ELSE IF HasOpen(s) THEN OpenExtreme(s)
    ELSE GreatestOf(s)

(***************************************************************************)
(* Module constants and conversions.                                       *)
(***************************************************************************)
NORM_NONE == "none"

NORM_MEANSTD == "meanstd"

NORM_CENTER == "center"

None == <<>>

\* A number of an input array (the batches of the model hold integers) as a
\* float64.
ToFloat(x) == <<x, 1>>

\* tf.convert_to_tensor(X, dtype=float64) of an input array.
tensor(X) == [r \in 1..Len(X) |-> [c \in 1..Len(X[r]) |-> ToFloat(X[r][c])]]

\* Column c of a 2D batch (rows are samples), as float64 values.
Column(X, c) == [r \in 1..Len(X) |-> ToFloat(X[r][c])]

NCols(X) == Len(X[1])

(***************************************************************************)
(* Normalization (lines 64-86).  A method is an operator from the instance *)
(* `self` (and arguments) to a record holding the instance afterwards and, *)
(* where it returns something, the returned value.                         *)
(***************************************************************************)
\* X.mean(0) of one column.
MeanOf(col) == Div(SumSeq(col), ToFloat(Len(col)))

\* X.std(0) of one column: the population standard deviation.
SquaredDeviations(col, m) ==
    [r \in 1..Len(col) |-> Square(Sub(col[r], m))]

StdOf(col) ==
    Sqrt(Div(SumSeq(SquaredDeviations(col, MeanOf(col))), ToFloat(Len(col))))

\* set_normalize_bounds as it would be if the bounds were computed once only.
set_normalize_bounds_once(self, X) ==
    IF self.norm_bounds # None THEN [self |-> self]
    ELSE IF self.norm = NORM_CENTER
    THEN [self |-> [self EXCEPT !.norm_bounds =
                      <<[c \in 1..NCols(X) |-> MinSeq(Column(X, c))],
                        [c \in 1..NCols(X) |-> MaxSeq(Column(X, c))]>>]]
    ELSE IF self.norm = NORM_MEANSTD
    THEN [self |-> [self EXCEPT !.norm_bounds =
                      <<[c \in 1..NCols(X) |-> MeanOf(Column(X, c))],
                        [c \in 1..NCols(X) |-> StdOf(Column(X, c))]>>]]
    ELSE [self |-> self]

set_normalize_bounds(self, X) ==
    IF self.norm = NORM_CENTER
    THEN [self |-> [self EXCEPT !.norm_bounds =
                      <<[c \in 1..NCols(X) |-> MinSeq(Column(X, c))],
                        [c \in 1..NCols(X) |-> MaxSeq(Column(X, c))]>>]]
    ELSE IF self.norm = NORM_MEANSTD
    THEN [self |-> [self EXCEPT !.norm_bounds =
                      <<[c \in 1..NCols(X) |-> MeanOf(Column(X, c))],
                        [c \in 1..NCols(X) |-> StdOf(Column(X, c))]>>]]
    ELSE [self |-> self]

\* normalize as it would be without the mode test: bounds that are set are
\* applied, as mean/std in mode meanstd and as lower/upper otherwise.
normalize_any_mode(self, X) ==
    IF self.norm_bounds = None
    THEN [self |-> self, ret |-> tensor(X)]
    ELSE IF self.norm = NORM_MEANSTD
    THEN [self |-> self,
          ret  |-> [r \in 1..Len(X) |-> [c \in 1..Len(X[r]) |->
                      Div(Sub(ToFloat(X[r][c]), self.norm_bounds[1][c]),
                          self.norm_bounds[2][c])]]]
    ELSE [self |-> self,
          ret  |-> [r \in 1..Len(X) |-> [c \in 1..Len(X[r]) |->
                      Sub(Sub(ToFloat(X[r][c]), self.norm_bounds[1][c]),
                          Mul(Half, Sub(self.norm_bounds[2][c],
                                        self.norm_bounds[1][c])))]]]

\* normalize as it would be if it stored the bounds of its input: the
\* lower and upper bound of every column, kept on the instance.
normalize_storing(self, X) ==
    [self |-> [self EXCEPT !.norm_bounds =
                 <<[c \in 1..NCols(X) |-> MinSeq(Column(X, c))],
                   [c \in 1..NCols(X) |-> MaxSeq(Column(X, c))]>>],
     ret  |-> tensor(X)]

\* Line 81: (X - lb) - 0.5 * (ub - lb).
Centered(X, lb, ub) ==
    [r \in 1..Len(X) |-> [c \in 1..Len(X[r]) |->
        Sub(Sub(ToFloat(X[r][c]), lb[c]), Mul(Half, Sub(ub[c], lb[c])))]]

\* Line 84: (X - mean) / std.
Standardized(X, mean, std) ==
    [r \in 1..Len(X) |-> [c \in 1..Len(X[r]) |->
        Div(Sub(ToFloat(X[r][c]), mean[c]), std[c])]]

normalize(self, X) ==
    IF self.norm_bounds = None
    THEN [self |-> self, ret |-> tensor(X)]
    ELSE IF self.norm = NORM_CENTER
    THEN [self |-> self,
          ret  |-> Centered(X, self.norm_bounds[1], self.norm_bounds[2])]
    ELSE IF self.norm = NORM_MEANSTD
    THEN [self |-> self,
          ret  |-> Standardized(X, self.norm_bounds[1], self.norm_bounds[2])]
    ELSE [self |-> self, ret |-> tensor(X)]

(***************************************************************************)
(* The network (build_model, lines 42-62).  The weights are a sequence of  *)
(* Dense layers, each [kernel |-> n_in x n_out matrix, bias |-> n_out].    *)
(***************************************************************************)
\* Input and output width of every Dense layer: the hidden widths are
\* layers[1:-1] and the last layer has 2 * layers[-1] units.
DenseWidths(layers) ==
    <<layers[1]>> \o SubSeq(layers, 2, Len(layers) - 1)
                  \o <<2 * layers[Len(layers)]>>

\* The trainable variables right after build_model: a glorot_normal draw k
\* for the kernels (one draw stands for every entry), zeros for the biases.
InitialWeights(layers, k) ==
    LET w == DenseWidths(layers)
    IN  [i \in 1..(Len(w) - 1) |->
            [kernel |-> [a \in 1..w[i] |-> [b \in 1..w[i + 1] |-> k]],
             bias   |-> [b \in 1..w[i + 1] |-> Zero]]]

\* tf.nn.relu on one value.
Relu(a) ==
    IF IsNaN(a) \/ IsOpen(a) THEN a
    ELSE IF Less(a, Zero) THEN Zero
    ELSE a

ReluAll(d) == [j \in 1..Len(d) |-> Relu(d[j])]

\* One Dense layer (no activation) on one sample h.
Dense(layer, h) ==
    [j \in 1..Len(layer.bias) |->
        Add(SumSeq([i \in 1..Len(h) |-> Mul(h[i], layer.kernel[i][j])]),
            layer.bias[j])]

\* The raw 2 * n_out outputs of the last Dense layer for one sample:
\* ReLU after every layer from i on but the last.
RECURSIVE RawOutput(_, _, _)
RawOutput(weights, i, h) ==
    IF i = Len(weights) THEN Dense(weights[i], h)
    ELSE RawOutput(weights, i + 1, ReluAll(Dense(weights[i], h)))

\* float64 softplus(z) = log(1 + exp(z)) is exactly 0 where exp(z)
\* underflows to 0: below log(2^-1075) = -745.1332191019412076...  The
\* bound is kept as -746 plus the decimals 0.8667 8089 8058 7924, in groups
\* of four.
SoftplusUnderflow == <<8667, 8089, 8058, 7924>>

\* Whether r/d, in [0, 1), lies below the decimals `groups`, compared four
\* at a time; the decimals are cut below the bound, so r/d equal to them is
\* below it.
RECURSIVE FractionBelow(_, _, _)
FractionBelow(r, d, groups) ==
    IF groups = <<>> THEN TRUE
    ELSE IF (r * 10000) \div d # Head(groups)
    THEN (r * 10000) \div d < Head(groups)
    ELSE FractionBelow((r * 10000) % d, d, Tail(groups))

\* The floor added to the scale (line 58): 1e-6.
ScaleFloor == <<1, 1000000>>

\* The scale as it would be without the floor.
OutputScaleNoFloor(soft_0, t) == [softplus_of |-> Mul(soft_0, t), plus |-> Zero]

\* The scale of the output distribution for one raw value t, line 58:
\* softplus(soft_0 * t) + 1e-6, kept as the softplus argument and the floor.
OutputScale(soft_0, t) == [softplus_of |-> Mul(soft_0, t), plus |-> ScaleFloor]

\* z below the underflow bound, for a computed z or -inf: by its integer
\* part, and then by its decimals.
Underflows(z) ==
    IF z = NInf THEN TRUE
    ELSE IF z[1] \div Abs(z[2]) # -746 THEN z[1] \div Abs(z[2]) < -746
    ELSE FractionBelow(z[1] % Abs(z[2]), Abs(z[2]), SoftplusUnderflow)

\* What float64 softplus(z) is: "nan", "zero" (underflow, and -inf), a
\* finite positive value "pos", or "pinf"; for a finite z that is not
\* computed "nonneg" (zero or pos), and "open" where z may be anything.
SoftplusClass(z) ==
    IF IsNaN(z) THEN "nan"
    ELSE IF z = AnyFloat THEN "open"
    ELSE IF z = Fin \/ z = FinPos THEN "nonneg"
    ELSE IF z = PInf THEN "pinf"
    ELSE IF Underflows(z) THEN "zero"
    ELSE "pos"

\* What a scale softplus(z) + plus is, plus being computed.
ScaleClass(scale) ==
    LET c == SoftplusClass(scale.softplus_of)
    IN  IF c = "nan" \/ IsNaN(scale.plus) THEN "nan"
        ELSE IF c = "open" THEN "open"
        ELSE IF c = "pinf" THEN "pinf"
        ELSE IF c = "pos" THEN "pos"
        ELSE IF Less(Zero, scale.plus) THEN "pos"
        ELSE IF c = "nonneg" THEN "nonneg"
        ELSE IF Less(scale.plus, Zero) THEN "neg"
        ELSE "zero"

\* The model called on a batch of float64 rows: tfd.Normal(loc, scale),
\* lines 56-59.
\* tfd.Normal(loc=t[..., :n], scale=softplus(soft_0 * t[..., n:]) + 1e-6)
\* on the raw outputs t of a batch.
NormalOf(soft_0, n, t) ==
    [loc   |-> [r \in 1..Len(t) |-> [j \in 1..n |-> t[r][j]]],
     scale |-> [r \in 1..Len(t) |->
                   [j \in 1..n |-> OutputScale(soft_0, t[r][n + j])]]]

ModelCall(self, Xn) ==
    NormalOf(self.soft_0, self.layers[Len(self.layers)],
             [r \in 1..Len(Xn) |-> RawOutput(self.weights, 1, Xn[r])])

\* y_dist.variance() of a Normal: the square of the scale.
Variance(dist) ==
    [r \in 1..Len(dist.scale) |->
        [j \in 1..Len(dist.scale[r]) |-> [square_of |-> dist.scale[r][j]]]]

\* The square of a computed scale softplus(z) + 0, z being computed and
\* softplus(z) above 0: exp(2z) underflows to 0 below z = -372.57, so the
\* square is "pos" from -372 on, "zero" below -373 and one of the two
\* ("nonneg") in between.
TinySquareClass(z) ==
    IF z[1] \div Abs(z[2]) >= -372 THEN "pos"
    ELSE IF z[1] \div Abs(z[2]) <= -374 THEN "zero"
    ELSE "nonneg"

\* The square of a finite scale above 0.  With a floor above 0 the square
\* cannot underflow; it is finite ("pos") for a computed softplus argument
\* and may overflow to +inf ("pos_or_pinf") for one that is not computed.
PositiveSquareClass(scale) ==
    IF Less(Zero, scale.plus)
    THEN (IF IsOpen(scale.softplus_of) THEN "pos_or_pinf" ELSE "pos")
    ELSE IF IsZero(scale.plus) /\ IsExact(scale.softplus_of)
    THEN TinySquareClass(scale.softplus_of)
    ELSE "nonneg"

\* What a variance scale^2 is: "nan", "zero", "pos" (finite, above 0),
\* "pinf", "pos_or_pinf" (above 0, maybe +inf), "nonneg" (0 or above, maybe
\* +inf) or "open" (anything).
VarianceClass(var) ==
    LET c == ScaleClass(var.square_of)
    IN  IF c = "neg" THEN "pos"
        ELSE IF c = "pos" THEN PositiveSquareClass(var.square_of)
        ELSE c

\* (y_dist.mean(), y_dist.variance()), lines 158-160.
MeanAndVariance(y_dist) == [mean |-> y_dist.loc, var |-> Variance(y_dist)]

\* predict after its call of normalize, which gave n.
PredictOn(n) ==
    [self |-> n.self, ret |-> MeanAndVariance(ModelCall(n.self, n.ret))]

predict(self, X) == PredictOn(normalize(self, X))

\* predict_dist after its call of normalize, which gave n.
PredictDistOn(n) == [self |-> n.self, ret |-> ModelCall(n.self, n.ret)]

predict_dist(self, X) == PredictDistOn(normalize(self, X))

(***************************************************************************)
(* Construction (__init__, lines 19-40).                                   *)
(***************************************************************************)
NoInstance == [exists |-> FALSE]

NoExc == ""

NoPath == "None"

\* self.logger = None (line 30), and the logger object given to fit.
NoLogger == "None"

TheLogger == "logger"

\* A path with no file behind it.
Absent == [exists |-> FALSE]

\* tf.keras.optimizers.Adam(lr) as constructed: no step taken and no moment
\* estimates yet.  `moments` holds the moment estimates of every variable
\* once a step is made (one value stands for the first and the second), and
\* `iterations` the steps made.
FreshOptimizer == [iterations |-> 0, moments |-> <<>>]

\* build_model: self.layers[0] raises IndexError on an empty list; any
\* other list of widths gives a Keras model.
build_model(layers, k) ==
    IF Len(layers) = 0
    THEN [exc |-> "IndexError", weights |-> <<>>]
    ELSE [exc |-> NoExc, weights |-> InitialWeights(layers, k)]

\* Whether saved weights fit the variables of a model of these widths.
SameShape(weights, layers) ==
    LET w == DenseWidths(layers)
    IN  /\ Len(weights) = Len(w) - 1
        /\ \A i \in 1..Len(weights) :
              /\ Len(weights[i].kernel) = w[i]
              /\ Len(weights[i].bias) = w[i + 1]

\* self.model.load_weights(weights_path) against the weight files fs.
load_weights(fs, weights_path, layers) ==
    IF ~fs[weights_path].exists
    THEN [exc |-> "NotFoundError", weights |-> <<>>]
    ELSE IF ~SameShape(fs[weights_path].weights, layers)
    THEN [exc |-> "ValueError", weights |-> <<>>]
    ELSE [exc |-> NoExc, weights |-> fs[weights_path].weights]

\* VarNeuralNetwork(layers, lr, lam, adv_eps, soft_0, norm, weights_path,
\* norm_bounds); k is the initializer's draw and fs the weight files.
\* Lines 38-40: the built model, with the weights of weights_path loaded
\* into it if a path is given.
ModelWithWeights(built, layers, weights_path, fs) ==
    IF built.exc = NoExc /\ weights_path # NoPath
    THEN load_weights(fs, weights_path, layers)
    ELSE built

\* The instance holding the model m, or the exception that building or
\* loading m raised.
Constructed(m, layers, lr, lam, adv_eps, soft_0, norm, norm_bounds) ==
    IF m.exc # NoExc
    THEN [exc |-> m.exc, self |-> NoInstance]
    ELSE [exc  |-> NoExc,
          self |-> [exists      |-> TRUE,
                    opt         |-> FreshOptimizer,
                    layers      |-> layers,
                    lr          |-> lr,
                    lam         |-> lam,
                    norm_bounds |-> norm_bounds,
                    norm        |-> norm,
                    adv_eps     |-> adv_eps,
                    soft_0      |-> soft_0,
                    logger      |-> NoLogger,
                    weights     |-> m.weights]]

VarNeuralNetwork(layers, lr, lam, adv_eps, soft_0, norm, weights_path, norm_bounds, k, fs) ==
    Constructed(ModelWithWeights(build_model(layers, k), layers, weights_path, fs),
                layers, lr, lam, adv_eps, soft_0, norm, norm_bounds)

(***************************************************************************)
(* The loss and one optimizer step (lines 88-128).                         *)
(***************************************************************************)
\* tf.nn.l2_loss of one Dense layer's kernel and bias: sum(t ** 2) / 2 each.
SumOfSquares(t) == SumSeq([j \in 1..Len(t) |-> Square(t[j])])

L2Loss(layer) ==
    Add(Mul(Half, SumSeq([i \in 1..Len(layer.kernel) |->
                             SumOfSquares(layer.kernel[i])])),
        Mul(Half, SumOfSquares(layer.bias)))

regularization(self) ==
    Mul(self.lam, SumSeq([i \in 1..Len(self.weights) |-> L2Loss(self.weights[i])]))

\* tf.reduce_sum(-dist.log_prob(v)), kept as the distribution and targets
\* it is evaluated on.
NegLogLik(dist, v) == [dist |-> dist, v |-> tensor(v)]

\* X + adv_eps * sign(loss_x), line 103 (X itself without adv_eps, where
\* the line is not reached); s[r][c] is the sign of the loss's derivative
\* w.r.t. the entry of row r and column c.
AdvInput(self, Xn, s) ==
    IF self.adv_eps = None THEN Xn
    ELSE [r \in 1..Len(Xn) |-> [c \in 1..Len(Xn[r]) |->
            Add(Xn[r][c], Mul(self.adv_eps, ToFloat(s[r][c])))]]

\* The loss of lines 100-105 from the predictions on X and on X_adv and
\* the value reg of self.regularization().
LossValue(self, v, y_pred, v_adv_pred, reg) ==
    IF self.adv_eps # None
    THEN [bound |-> TRUE,
          nll   |-> <<NegLogLik(y_pred, v), NegLogLik(v_adv_pred, v)>>,
          reg   |-> Add(reg, reg)]
    ELSE [bound |-> TRUE, nll |-> <<NegLogLik(y_pred, v)>>, reg |-> reg]

\* One value g for every variable of a layer.
LayerOf(layer, g) ==
    [kernel |-> [a \in 1..Len(layer.kernel) |->
                   [b \in 1..Len(layer.kernel[a]) |-> g]],
     bias   |-> [b \in 1..Len(layer.bias) |-> g]]

\* The loss and its gradients, the value g for every trainable variable.
GradientsOf(self, loss, g) ==
    [loss  |-> loss,
     grads |-> [i \in 1..Len(self.weights) |-> LayerOf(self.weights[i], g)]]

\* The loss and its derivatives w.r.t. the variables (line 106).  The
\* derivatives are not computed, and a derivative may be any float64: also
\* a finite loss has infinite or NaN derivatives where they overflow.
Gradients(self, loss) == GradientsOf(self, loss, AnyFloat)

\* grad(X, v): the loss value and the gradients.  s gives the signs of the
\* loss's derivative w.r.t. the inputs.
grad(self, Xn, v, s) ==
    Gradients(self,
              LossValue(self, v, ModelCall(self, Xn),
                        ModelCall(self, AdvInput(self, Xn, s)),
                        regularization(self)))

\* What Adam makes of a value x it holds for a variable (the variable
\* itself, or a moment estimate of it) on the gradient g: the update
\* lr * m_hat / (sqrt(v_hat) + epsilon) and the estimates are not computed.
\* A NaN stays NaN and a NaN gradient makes NaN; any other result may be
\* any float64 (the estimates overflow, and lr may be anything).
AdamOn(x, g) == IF IsNaN(x) \/ IsNaN(g) THEN NaN ELSE AnyFloat

\* One layer's values x after the update, on the gradients or the new
\* moment estimates gl.
Moved(layer, gl) ==
    [kernel |-> [a \in 1..Len(layer.kernel) |->
                   [b \in 1..Len(layer.kernel[a]) |->
                       AdamOn(layer.kernel[a][b], gl.kernel[a][b])]],
     bias   |-> [b \in 1..Len(layer.bias) |->
                   AdamOn(layer.bias[b], gl.bias[b])]]

\* The moment estimates of layer i before an update: 0 for every variable
\* in an optimizer that has made no step.
LayerMoments(self, i) ==
    IF self.opt.moments = <<>> THEN LayerOf(self.weights[i], Zero)
    ELSE self.opt.moments[i]

\* The instance after the update with the new moment estimates ms.
AppliedWith(self, ms) ==
    [self EXCEPT
        !.weights = [i \in 1..Len(self.weights) |->
                        Moved(self.weights[i], ms[i])],
        !.opt     = [iterations |-> self.opt.iterations + 1,
                     moments    |-> ms]]

\* tf_optimizer.apply_gradients: one Adam step, which is counted.
apply_gradients(self, grads) ==
    AppliedWith(self, [i \in 1..Len(self.weights) |->
                          Moved(LayerMoments(self, i), grads[i])])

\* tf_optimization_step after its call of grad, which gave g.
StepWith(self, g) == [self |-> apply_gradients(self, g.grads), ret |-> g.loss]

tf_optimization_step(self, X_v, v, s) ==
    StepWith(self, grad(self, X_v, v, s))

(***************************************************************************)
(* Persistence (lines 175-193).                                            *)
(***************************************************************************)
\* save_to: pickles the params tuple to params_path and saves the weights
\* to model_path; pf and wf are the params files and the weight files.
save_to(self, model_path, params_path, pf, wf) ==
    [self |-> self,
     pf   |-> [pf EXCEPT ![params_path] =
                 [exists |-> TRUE,
                  params |-> <<self.layers, self.lr, self.lam, self.soft_0,
                               self.norm, self.norm_bounds>>]],
     wf   |-> [wf EXCEPT ![model_path] =
                 [exists |-> TRUE, weights |-> self.weights]]]

\* Lines 191-193: the unpickled tuple t is (layers, lr, lam, soft_0, norm,
\* norm_bounds), and the constructor is called with all of them but soft_0.
FromParams(t, weights_path, wf, k) ==
    VarNeuralNetwork(t[1], t[2], t[3], None, One, t[5], weights_path, t[6], k, wf)

\* load_from as it would be if a missing params file gave a default model.
load_from_default(weights_path, params_path, pf, wf, k) ==
    IF ~pf[params_path].exists
    THEN VarNeuralNetwork(<<1, 1>>, Half, Zero, None, One, NORM_NONE,
                          NoPath, None, k, wf)
    ELSE FromParams(pf[params_path].params, weights_path, wf, k)

\* load_from: FileNotFoundError without the params file; otherwise the
\* constructor called with layers, lr, lam, weights_path, norm and
\* norm_bounds of the params file (adv_eps and soft_0 take their defaults).
load_from(weights_path, params_path, pf, wf, k) ==
    IF ~pf[params_path].exists
    THEN [exc |-> "FileNotFoundError", self |-> NoInstance]
    ELSE FromParams(pf[params_path].params, weights_path, wf, k)

\* A local variable not yet assigned.
Unbound == [bound |-> FALSE]

IdleFrame == [pc |-> "idle"]

(***************************************************************************)
(* Training (lines 114-152).  fit and fit_simple run tf_optimization, a    *)
(* loop of one optimizer step per epoch; `frame` holds the loop's locals   *)
(* and `log` the calls made on the logger and on the optimizer.            *)
(***************************************************************************)
\* The frame on entry to tf_optimization(X_v, v, tf_epochs, nolog).
LoopFrame(op, X_v, v, tf_epochs, nolog) ==
    [pc |-> "tf_optimization", op |-> op, epoch |-> 0, tf_epochs |-> tf_epochs,
     nolog |-> nolog, loss_value |-> Unbound, X_v |-> X_v, v |-> v]

\* fit or fit_simple from the normalized batch n on: the frame of its
\* call of tf_optimization.
Entered(op, n, v, epochs, lg, nolog) ==
    [self  |-> n.self,
     log   |-> lg,
     frame |-> LoopFrame(op, n.ret, v, epochs, nolog)]

\* Lines 137-138 and 148-149: the bounds are set from X_v, then applied.
Normalized(self, X_v) == normalize(set_normalize_bounds(self, X_v).self, X_v)

\* Line 133: self.logger = logger.
WithLogger(self) == [self EXCEPT !.logger = TheLogger]

\* The instance with a new optimizer.
WithNewOptimizer(e) == [e EXCEPT !.self.opt = FreshOptimizer]

\* fit as it would be if it started from a new optimizer.
fit_resetting(self, X_v, v, epochs) ==
    WithNewOptimizer(Entered("fit", Normalized(WithLogger(self), X_v), v, epochs,
                             <<[call |-> "log_train_start"]>>, FALSE))

\* fit up to its call of tf_optimization (lines 133-142).
fit(self, X_v, v, epochs) ==
    Entered("fit", Normalized(WithLogger(self), X_v), v, epochs,
            <<[call |-> "log_train_start"]>>, FALSE)

\* fit_simple up to its call of tf_optimization (lines 148-152).
fit_simple(self, X_v, v, epochs) ==
    Entered("fit_simple", Normalized(self, X_v), v, epochs, <<>>, TRUE)

\* tf_optimization called by itself, up to its loop.
tf_optimization(self, X_v, v, tf_epochs, nolog) ==
    [self  |-> self,
     log   |-> <<>>,
     frame |-> LoopFrame("tf_optimization", X_v, v, tf_epochs, nolog)]

\* Line 119 raises AttributeError on self.logger = None.
LoggerMissing(self, fr) == ~fr.nolog /\ self.logger = NoLogger

\* The calls of one iteration: the optimizer's update, then the logger.
IterLog(self, fr, lg, loss) ==
    IF fr.nolog \/ LoggerMissing(self, fr)
    THEN Append(lg, [call |-> "apply_gradients", loss |-> loss])
    ELSE lg \o <<[call |-> "apply_gradients", loss |-> loss],
                 [call |-> "log_train_epoch", epoch |-> fr.epoch,
                  loss |-> loss]>>

\* One iteration after its call of tf_optimization_step, which gave st: the
\* exception of the logger call ends the loop and its caller.
IterWith(fr, lg, st) ==
    [self  |-> st.self,
     exc   |-> IF LoggerMissing(st.self, fr) THEN "AttributeError" ELSE NoExc,
     frame |-> IF LoggerMissing(st.self, fr) THEN IdleFrame
               ELSE [fr EXCEPT !.epoch = fr.epoch + 1, !.loss_value = st.ret],
     log   |-> IterLog(st.self, fr, lg, st.ret)]

\* One iteration of the loop of tf_optimization (lines 116-119).
tf_optimization_iter(self, fr, lg, s) ==
    IterWith(fr, lg, tf_optimization_step(self, fr.X_v, fr.v, s))

\* The end of tf_optimization and of its caller (lines 120, 144): reading
\* loss_value raises UnboundLocalError if no iteration assigned it; fit then
\* calls log_train_end.
tf_optimization_return(fr, lg) ==
    IF ~fr.loss_value.bound
    THEN [exc |-> "UnboundLocalError", log |-> lg]
    ELSE IF fr.op = "fit"
    THEN [exc |-> NoExc,
          log |-> Append(lg, [call   |-> "log_train_end",
                              epochs |-> fr.tf_epochs,
                              loss   |-> fr.loss_value])]
    ELSE [exc |-> NoExc, log |-> lg]

(***************************************************************************)
(* Inputs of the model.                                                    *)
(***************************************************************************)
\* The largest epochs argument of fit and fit_simple.
MaxEpochs == 2

\* The most optimizer steps taken in one behaviour, over all instances.
MaxSteps == 2

\* The most calls the caller makes in one behaviour.
MaxCalls == 5

Topologies == {<<>>, <<1>>, <<1, 1>>, <<1, 1, 1>>}

Norms == {NORM_NONE, NORM_CENTER, NORM_MEANSTD}

\* norm_bounds arguments: the default None, and lower 0 / upper 2.
CtorBounds == {None, <<<<Zero>>, <<<<2, 1>>>>>>}

Args(layers, adv_eps, soft_0, norm, norm_bounds) ==
    [layers |-> layers, lr |-> Half, lam |-> <<1, 10>>, adv_eps |-> adv_eps,
     soft_0 |-> soft_0, norm |-> norm, norm_bounds |-> norm_bounds]

\* Constructor arguments: every topology with the defaults; every
\* normalization mode with and without bounds, at soft_0 = 1000; and the
\* adversarial term at soft_0 = 0.01 (experiments' hyperparams).
CtorArgs ==
    {Args(l, None, One, NORM_NONE, None) : l \in Topologies}
    \cup {Args(<<1, 1>>, None, <<1000, 1>>, n, b) : n \in Norms, b \in CtorBounds}
    \cup {Args(<<1, 1, 1>>, <<1, 10>>, <<1, 100>>, NORM_MEANSTD, None)}

\* The glorot_normal draw.
InitDraws == {Neg(One)}

\* Training batches (one input column); their variances are squares.
Batches == {<<<<1>>, <<3>>>>, <<<<2>>>>}

\* Inputs of normalize and predict.
Inputs == {<<<<2>>, <<5>>>>}

TargetsFor(X) == {[r \in 1..Len(X) |-> <<1>>]}

\* tf.math.sign(loss_x): a sign -1, 0 or 1 for every entry of the batch
\* (read only with adv_eps).
InputSigns(self, X_v) ==
    IF self.adv_eps = None
    THEN {[r \in 1..Len(X_v) |-> [c \in 1..Len(X_v[r]) |-> 0]]}
    ELSE [1..Len(X_v) -> [1..Len(X_v[1]) -> {-1, 0, 1}]]

PPaths == {"p1"}

WPaths == {"w1"}

\* What the weights path may hold before the first save_to: nothing, or a
\* weights file left there by an earlier run.
StaleWeights == {Absent, [exists |-> TRUE, weights |-> InitialWeights(<<1, 1>>, One)]}

(***************************************************************************)
(* The state machine.  inst is the instance the caller holds, frame the    *)
(* position inside a running fit, log the calls the last operation made on *)
(* the logger and the optimizer, pfs / wfs the params and weight files and *)
(* ret the last operation with its arguments, exception and result.  count *)
(* only counts: the fit calls on inst (up to 2), and the optimizer steps   *)
(* and the caller's calls of the behaviour, which the guards bound.        *)
(***************************************************************************)
Init ==
    /\ inst = NoInstance
    /\ frame = IdleFrame
    /\ log = <<>>
    /\ pfs = [p \in PPaths |-> Absent]
    /\ wfs \in [WPaths -> StaleWeights]
    /\ ret = [op |-> "none", exc |-> NoExc, done |-> TRUE]
    /\ count = [fits |-> 0, steps |-> 0, calls |-> 0]

Idle == frame.pc = "idle"

Construct ==
    /\ Idle
    /\ count.calls < MaxCalls
    /\ ~inst.exists
    /\ \E a \in CtorArgs, k \in InitDraws :
          \E c \in {VarNeuralNetwork(a.layers, a.lr, a.lam, a.adv_eps, a.soft_0,
                                    a.norm, NoPath, a.norm_bounds, k, wfs)} :
              /\ inst' = c.self
              /\ ret' = [op |-> "__init__", exc |-> c.exc, done |-> TRUE,
                         layers |-> a.layers]
    /\ count' = [count EXCEPT !.fits = 0, !.calls = @ + 1]
    /\ log' = <<>>
    /\ UNCHANGED <<frame, pfs, wfs>>

Fit ==
    /\ Idle
    /\ count.calls < MaxCalls
    /\ inst.exists
    /\ \E X \in Batches, epochs \in 0..MaxEpochs :
          /\ count.steps + epochs <= MaxSteps
          /\ \E v \in TargetsFor(X) :
                \E f \in {fit(inst, X, v, epochs)} :
                    /\ inst' = f.self
                    /\ frame' = f.frame
                    /\ log' = f.log
                    /\ ret' = [op |-> "fit", exc |-> NoExc, done |-> FALSE,
                               X |-> X, epochs |-> epochs]
    /\ count' = [count EXCEPT !.fits = IF @ < 2 THEN @ + 1 ELSE @,
                            !.calls = @ + 1]
    /\ UNCHANGED <<pfs, wfs>>

FitSimple ==
    /\ Idle
    /\ count.calls < MaxCalls
    /\ inst.exists
    /\ \E X \in Batches, epochs \in 0..MaxEpochs :
          /\ count.steps + epochs <= MaxSteps
          /\ \E v \in TargetsFor(X) :
                \E f \in {fit_simple(inst, X, v, epochs)} :
                    /\ inst' = f.self
                    /\ frame' = f.frame
                    /\ log' = f.log
                    /\ ret' = [op |-> "fit_simple", exc |-> NoExc,
                               done |-> FALSE, X |-> X, epochs |-> epochs]
    /\ count' = [count EXCEPT !.fits = IF @ < 2 THEN @ + 1 ELSE @,
                            !.calls = @ + 1]
    /\ UNCHANGED <<pfs, wfs>>

\* The caller's view after an iteration that gave `it`.
Iterated(it) ==
    /\ inst' = it.self
    /\ frame' = it.frame
    /\ log' = it.log
    /\ ret' = IF it.exc = NoExc THEN ret
              ELSE [ret EXCEPT !.exc = it.exc, !.done = TRUE]

OptStep ==
    /\ frame.pc = "tf_optimization"
    /\ frame.epoch < frame.tf_epochs
    /\ \E s \in InputSigns(inst, frame.X_v) :
          \E it \in {tf_optimization_iter(inst, frame, log, s)} :
             Iterated(it)
    /\ count' = [count EXCEPT !.steps = @ + 1]
    /\ UNCHANGED <<pfs, wfs>>

OptReturn ==
    /\ frame.pc = "tf_optimization"
    /\ frame.epoch >= frame.tf_epochs
    /\ \E r \in {tf_optimization_return(frame, log)} :
           /\ log' = r.log
           /\ ret' = [ret EXCEPT !.exc = r.exc, !.done = TRUE]
    /\ frame' = IdleFrame
    /\ UNCHANGED <<inst, pfs, wfs, count>>

\* self.tf_optimization(X_v, v, tf_epochs, nolog) called by itself, on a
\* batch as it is.
TfOptimization ==
    /\ Idle
    /\ count.calls < MaxCalls
    /\ inst.exists
    /\ \E X \in Batches, epochs \in 0..MaxEpochs, nolog \in BOOLEAN :
          /\ count.steps + epochs <= MaxSteps
          /\ \E v \in TargetsFor(X) :
                /\ frame' = tf_optimization(inst, tensor(X), v, epochs, nolog).frame
                /\ ret' = [op |-> "tf_optimization", exc |-> NoExc,
                           done |-> FALSE, X |-> X, epochs |-> epochs]
    /\ log' = <<>>
    /\ count' = [count EXCEPT !.calls = @ + 1]
    /\ UNCHANGED <<inst, pfs, wfs>>

\* The caller's view after tf_optimization_step gave st.
Stepped(st) ==
    /\ inst' = st.self
    /\ log' = <<[call |-> "apply_gradients", loss |-> st.ret]>>
    /\ ret' = [op |-> "tf_optimization_step", exc |-> NoExc, done |-> TRUE,
               value |-> st.ret]

\* self.tf_optimization_step(X_v, v) called by itself, on a batch as it is.
TfOptimizationStep ==
    /\ Idle
    /\ count.calls < MaxCalls
    /\ inst.exists
    /\ count.steps < MaxSteps
    /\ \E X \in Batches :
          \E v \in TargetsFor(X), s \in InputSigns(inst, X) :
             \E st \in {tf_optimization_step(inst, tensor(X), v, s)} :
                Stepped(st)
    /\ count' = [count EXCEPT !.steps = @ + 1, !.calls = @ + 1]
    /\ UNCHANGED <<frame, pfs, wfs>>

\* self.set_normalize_bounds(X) called by itself.
SetNormalizeBounds ==
    /\ Idle
    /\ count.calls < MaxCalls
    /\ inst.exists
    /\ \E X \in Batches :
          /\ \E b \in {set_normalize_bounds(inst, X)} : inst' = b.self
          /\ ret' = [op |-> "set_normalize_bounds", exc |-> NoExc,
                     done |-> TRUE, X |-> X]
    /\ log' = <<>>
    /\ count' = [count EXCEPT !.calls = @ + 1]
    /\ UNCHANGED <<frame, pfs, wfs>>

Normalize ==
    /\ Idle
    /\ count.calls < MaxCalls
    /\ inst.exists
    /\ \E X \in Inputs :
          \E n \in {normalize(inst, X)} :
              /\ inst' = n.self
              /\ ret' = [op |-> "normalize", exc |-> NoExc, done |-> TRUE,
                         X |-> X, value |-> n.ret]
    /\ log' = <<>>
    /\ count' = [count EXCEPT !.calls = @ + 1]
    /\ UNCHANGED <<frame, pfs, wfs>>

Predict ==
    /\ Idle
    /\ count.calls < MaxCalls
    /\ inst.exists
    /\ \E X \in Inputs :
          \E n \in {predict(inst, X)} :
              /\ inst' = n.self
              /\ ret' = [op |-> "predict", exc |-> NoExc, done |-> TRUE,
                         X |-> X, value |-> n.ret]
    /\ log' = <<>>
    /\ count' = [count EXCEPT !.calls = @ + 1]
    /\ UNCHANGED <<frame, pfs, wfs>>

PredictDist ==
    /\ Idle
    /\ count.calls < MaxCalls
    /\ inst.exists
    /\ \E X \in Inputs :
          \E n \in {predict_dist(inst, X)} :
              /\ inst' = n.self
              /\ ret' = [op |-> "predict_dist", exc |-> NoExc, done |-> TRUE,
                         X |-> X, value |-> n.ret]
    /\ log' = <<>>
    /\ count' = [count EXCEPT !.calls = @ + 1]
    /\ UNCHANGED <<frame, pfs, wfs>>

SaveTo ==
    /\ Idle
    /\ count.calls < MaxCalls
    /\ inst.exists
    /\ \E w \in WPaths, p \in PPaths :
          \E sv \in {save_to(inst, w, p, pfs, wfs)} :
              /\ inst' = sv.self
              /\ pfs' = sv.pf
              /\ wfs' = sv.wf
              /\ ret' = [op |-> "save_to", exc |-> NoExc, done |-> TRUE,
                         w |-> w, p |-> p]
    /\ log' = <<>>
    /\ count' = [count EXCEPT !.calls = @ + 1]
    /\ UNCHANGED frame

LoadFrom ==
    /\ Idle
    /\ count.calls < MaxCalls
    /\ \E w \in WPaths, p \in PPaths, k \in InitDraws :
          \E ld \in {load_from(w, p, pfs, wfs, k)} :
              /\ inst' = IF ld.exc = NoExc THEN ld.self ELSE inst
              /\ count' = [count EXCEPT !.calls = @ + 1,
                                         !.fits = IF ld.exc = NoExc THEN 0 ELSE @]
              /\ ret' = [op |-> "load_from", exc |-> ld.exc, done |-> TRUE,
                         w |-> w, p |-> p, value |-> ld.self,
                         params_existed |-> pfs[p].exists,
                         weights_existed |-> wfs[w].exists]
    /\ log' = <<>>
    /\ UNCHANGED <<frame, pfs, wfs>>

Next ==
    \/ Construct
    \/ Fit
    \/ FitSimple
    \/ OptStep
    \/ OptReturn
    \/ TfOptimization
    \/ TfOptimizationStep
    \/ SetNormalizeBounds
    \/ Normalize
    \/ Predict
    \/ PredictDist
    \/ SaveTo
    \/ LoadFrom

Spec == Init /\ [][Next]_vars

(***************************************************************************)
(* Properties.                                                             *)
(***************************************************************************)
ReadOnlyOps == {"normalize", "predict", "predict_dist", "save_to"}

FitOps == {"fit", "fit_simple"}

NormalizingModes == {NORM_CENTER, NORM_MEANSTD}

\* The step enters fit or fit_simple.
FitEntered ==
    frame.pc = "idle" /\ frame'.pc = "tf_optimization" /\ ret'.op \in FitOps

\* The step calls set_normalize_bounds: inside fit or fit_simple, or by
\* itself.
BoundsCall == FitEntered \/ ret'.op = "set_normalize_bounds"

\* The step makes one optimizer update: an iteration of the training loop,
\* or tf_optimization_step called by itself.
OptimizerStepped == count'.steps = count.steps + 1

\* The step is one iteration of the training loop.
OptStepTaken ==
    /\ frame.pc = "tf_optimization"
    /\ frame'.pc = "tf_optimization"
    /\ frame'.epoch = frame.epoch + 1

\* The step leaves the caller with the same instance object: it neither
\* constructs one nor replaces it by a loaded one.
SameObject == inst.exists /\ inst'.exists /\ ret'.op # "load_from"

\* The (mean, variance) predict gives for every input of the model.
Predictions(self) == [X \in Inputs |-> predict(self, X).ret]

\* C1: save_to(w, p) followed by load_from(w, p) yields an instance with the
\* saved instance's layers, lr, lam, soft_0, norm, norm_bounds and weights,
\* whose predict equals the saved instance's on every input.
C1_RoundTrip ==
    [][(ret.op = "save_to" /\ ret'.op = "load_from" /\ ret'.exc = NoExc)
        => /\ inst'.layers = inst.layers
           /\ inst'.lr = inst.lr
           /\ inst'.lam = inst.lam
           /\ inst'.soft_0 = inst.soft_0
           /\ inst'.norm = inst.norm
           /\ inst'.norm_bounds = inst.norm_bounds
           /\ inst'.weights = inst.weights
           /\ Predictions(inst') = Predictions(inst)]_vars

\* C2: load_from with no params file ends in FileNotFoundError and gives no
\* instance, whether or not the weights file exists.
C2_MissingParams ==
    (ret.op = "load_from" /\ ~ret.params_existed)
        => (ret.exc = "FileNotFoundError" /\ ~ret.value.exists)

\* C2 witness: load_from was called with the weights file there and the
\* params file missing.
C2_Witness ==
    ret.op = "load_from" /\ ~ret.params_existed /\ ret.weights_existed

\* C3: constructing with fewer than 2 layer widths fails and produces no
\* instance.
C3_FewLayersFail ==
    (ret.op = "__init__" /\ Len(ret.layers) < 2)
        => (ret.exc # NoExc /\ ~inst.exists)

\* C4 as claimed: once a first fit has stored bounds (mode center or
\* meanstd), no later fit, fit_simple, normalize, predict, predict_dist or
\* save_to call changes them.
C4_BoundsImmutable ==
    [][(SameObject /\ count.fits >= 1 /\ inst.norm \in NormalizingModes
            /\ ret'.op \in FitOps \cup ReadOnlyOps)
        => inst'.norm_bounds = inst.norm_bounds]_vars

\* The bounds of a batch in a normalizing mode: lower/upper bound, or mean
\* and standard deviation, of every column.
BatchBounds(norm, X) ==
    IF norm = NORM_CENTER
    THEN <<[c \in 1..NCols(X) |-> MinSeq(Column(X, c))],
           [c \in 1..NCols(X) |-> MaxSeq(Column(X, c))]>>
    ELSE <<[c \in 1..NCols(X) |-> MeanOf(Column(X, c))],
           [c \in 1..NCols(X) |-> StdOf(Column(X, c))]>>

\* C4 amended: in mode center or meanstd every fit and fit_simple call,
\* like set_normalize_bounds called by itself, replaces the stored bounds by
\* the bounds of its own batch, so a later fit on another batch changes
\* them; no other call on the instance changes the bounds, and in mode none
\* no call does.
C4_BoundsSetByEachFit ==
    [][SameObject
        => IF BoundsCall /\ inst.norm \in NormalizingModes
           THEN inst'.norm_bounds = BatchBounds(inst.norm, ret'.X)
           ELSE inst'.norm_bounds = inst.norm_bounds]_vars

\* C4 witness: a second fit on the batch <<2>> has run in mode center on an
\* instance constructed with the bounds (0, 2).
C4_Witness ==
    /\ inst.exists
    /\ count.fits = 2
    /\ inst.norm = NORM_CENTER
    /\ ret.op = "fit" /\ ret.done /\ ret.exc = NoExc
    /\ ret.X = <<<<2>>>>
    /\ inst.norm_bounds = <<<<<<2, 1>>>>, <<<<2, 1>>>>>>

\* C5 as claimed: at the start of a second fit the optimizer is in the
\* state of a newly constructed one.
C5_OptimizerResetOnFit ==
    (frame.pc = "tf_optimization" /\ frame.epoch = 0 /\ count.fits = 2)
        => inst.opt = FreshOptimizer

\* C5 amended: the optimizer is created at construction and never reset:
\* entering fit or fit_simple leaves its state as the earlier fits left it,
\* every optimizer update advances the step count by one and leaves moment
\* estimates for the variables of every layer, and no other call on the
\* instance changes the optimizer.
C5_OptimizerCarriedOver ==
    [][SameObject
        => IF OptimizerStepped
           THEN /\ inst'.opt.iterations = inst.opt.iterations + 1
                /\ Len(inst'.opt.moments) = Len(inst.weights)
           ELSE inst'.opt = inst.opt]_vars

\* C5 witness: a second fit starts with optimizer steps already taken.
C5_Witness ==
    /\ frame.pc = "tf_optimization"
    /\ frame.op = "fit"
    /\ frame.epoch = 0
    /\ count.fits = 2
    /\ inst.opt.iterations > 0

\* C6: a finished fit(X, v, epochs, logger) has called log_train_start,
\* then for epoch = 0..epochs-1 in order the optimizer update followed by
\* log_train_epoch(epoch, that update's loss), then
\* log_train_end(epochs, last loss), and nothing else.
C6_LoggerSequence ==
    (ret.op = "fit" /\ ret.done)
        => /\ Len(log) = 2 * ret.epochs + 2
           /\ log[1].call = "log_train_start"
           /\ \A e \in 0..(ret.epochs - 1) :
                 /\ log[2 * e + 2].call = "apply_gradients"
                 /\ log[2 * e + 3] = [call  |-> "log_train_epoch",
                                      epoch |-> e,
                                      loss  |-> log[2 * e + 2].loss]
           /\ log[Len(log)].call = "log_train_end"
           /\ log[Len(log)].epochs = ret.epochs
           /\ ret.epochs > 0 => log[Len(log)].loss = log[Len(log) - 1].loss

\* The optimizer updates among the calls of a log.
Updates(lg) == {i \in 1..Len(lg) : lg[i].call = "apply_gradients"}

\* C7: for every epochs >= 0 a finished fit or fit_simple has made exactly
\* `epochs` optimizer updates and returned normally, fit after its
\* log_train_end call.
C7_FixedEpochsTerminate ==
    (ret.op \in FitOps /\ ret.done)
        => /\ ret.exc = NoExc
           /\ Cardinality(Updates(log)) = ret.epochs
           /\ ret.op = "fit" => log[Len(log)].call = "log_train_end"

\* C8: normalize, predict, predict_dist and save_to change neither the
\* weights nor the normalization bounds; the weights of an instance change
\* only in an optimizer update of the training step; and normalize or
\* predict called again on the same input returns the same value.
C8_ReadOnlyOps ==
    [][/\ (inst.exists /\ ret'.op \in ReadOnlyOps)
            => (inst'.weights = inst.weights
                /\ inst'.norm_bounds = inst.norm_bounds)
       /\ (SameObject /\ inst'.weights # inst.weights) => OptimizerStepped
       /\ (ret.op \in {"normalize", "predict"} /\ ret'.op = ret.op
                /\ ret'.X = ret.X)
            => ret'.value = ret.value]_vars

\* C8 witness: predict was called on a trained instance with stored bounds.
C8_Witness ==
    /\ inst.exists
    /\ ret.op = "predict"
    /\ inst.opt.iterations > 0
    /\ inst.norm \in NormalizingModes
    /\ inst.norm_bounds # None

\* C9: normalize(X) returns X as it is when the mode is none or no bounds
\* are set; in mode center with bounds it returns (X - lb) - 0.5 (ub - lb)
\* and in mode meanstd with bounds (X - mean) / std.
C9_NormalizeIdentity ==
    ret.op = "normalize"
        => \A r \in 1..Len(ret.X) : \A c \in 1..Len(ret.X[r]) :
              LET x == ToFloat(ret.X[r][c])
                  b == inst.norm_bounds
              IN  ret.value[r][c] =
                     IF inst.norm = NORM_NONE \/ b = None THEN x
                     ELSE IF inst.norm = NORM_CENTER
                     THEN Sub(Sub(x, b[1][c]), Mul(Half, Sub(b[2][c], b[1][c])))
                     ELSE Div(Sub(x, b[1][c]), b[2][c])

\* C9 witness: normalize was called in mode none on an instance given
\* bounds through the constructor.
C9_Witness ==
    ret.op = "normalize" /\ inst.norm = NORM_NONE /\ inst.norm_bounds # None

\* The variances of a predict result.
Variances(value) ==
    {value.var[r][j] : r \in 1..Len(value.var), j \in 1..Len(value.var[1])}

\* The variance when the softplus argument of var is z.
VarianceAt(var, z) == [square_of |-> [var.square_of EXCEPT !.softplus_of = z]]

\* The classes of a variance that is strictly positive.
PositiveClasses == {"pos", "pinf", "pos_or_pinf"}

\* C10 as claimed: every variance predict returns is strictly positive, in
\* any model state.  A variance that is not computed ("open") is not held
\* against the claim.
C10_VariancePositive ==
    ret.op = "predict"
        => \A var \in Variances(ret.value) :
              VarianceClass(var) \in PositiveClasses \cup {"open"}

\* C10 amended: every variance predict returns is strictly positive
\* whenever the softplus argument soft_0 * raw_scale is not NaN, also where
\* softplus underflows to 0; where the argument is NaN (inputs divided by a
\* zero std, NaN weights) the variance is NaN.  Where the argument is not
\* computed (trained weights), this holds for every kind of value it may
\* be: NaN, -inf, +inf or finite.
C10_VariancePositiveUnlessNaN ==
    ret.op = "predict"
        => \A var \in Variances(ret.value) :
              \A z \in KindsOf(var.square_of.softplus_of) :
                 IF IsNaN(z)
                 THEN VarianceClass(VarianceAt(var, z)) = "nan"
                 ELSE VarianceClass(VarianceAt(var, z)) \in PositiveClasses

\* C10 witness: predict returned a variance whose softplus underflowed to
\* 0, so that only the floor keeps it positive.
C10_Witness ==
    /\ ret.op = "predict"
    /\ \E var \in Variances(ret.value) :
          SoftplusClass(var.square_of.softplus_of) = "zero"

\* predict on an instance loaded from the files of a trained one: its
\* weights are those of the optimizer's updates and its optimizer is new.
C10_TrainedRoundTrip ==
    /\ ret.op = "predict"
    /\ ret.exc = NoExc
    /\ inst.opt = FreshOptimizer
    /\ inst.weights[1].bias[1] = AnyFloat
    /\ \E var \in Variances(ret.value) : var.square_of.softplus_of = AnyFloat


\* The loss reported by the iteration the step has made: the one given to
\* log_train_epoch, or with nolog the one the optimizer's update came with.
ReportedLoss == log'[Len(log')].loss

\* C11: the loss of one training step is the negative log-likelihood on
\* the batch plus the L2 penalty, plus, with adv_eps set, the negative
\* log-likelihood on X + adv_eps * sign(dLoss/dX); the L2 penalty enters the
\* total exactly once, without adv_eps the loss is the base objective alone,
\* and this loss is the one reported.
C11_PenaltyOnce ==
    [][OptStepTaken =>
          /\ frame'.loss_value.reg = regularization(inst)
          /\ frame'.loss_value.nll[1]
                = NegLogLik(ModelCall(inst, frame.X_v), frame.v)
          /\ IF inst.adv_eps = None
             THEN Len(frame'.loss_value.nll) = 1
             ELSE /\ Len(frame'.loss_value.nll) = 2
                  /\ \E s \in InputSigns(inst, frame.X_v) :
                        frame'.loss_value.nll[2]
                           = NegLogLik(ModelCall(inst,
                                 AdvInput(inst, frame.X_v, s)), frame.v)
          /\ ReportedLoss = frame'.loss_value]_vars

=============================================================================
